---- MODULE Spec2Model ----
(***************************************************************************)
(* Backbone_Validation/main.py: evaluation of a pulse counter (model_1)    *)
(* and a pulse-feature predictor (model_2) on a 4-D grid of validation     *)
(* windows.  One process per rank runs main(); in statistics mode each     *)
(* rank walks the flat window index, handles the windows of its shard and  *)
(* the three error tensors are sum-reduced to rank 0.                      *)
(*                                                                         *)
(* Numbers.  A tensor cell is a pair <<n, d>>: the rational n/d in lowest  *)
(* terms when d > 0, and NaN when d = 0.  Counter outputs are kept in      *)
(* quarters (q stands for q/4) so that torch.round's ties are inputs.      *)
(* Durations are kept in units of 10^-3 and amplitudes in units of 10^-10, *)
(* the scales main.py multiplies the predictor outputs by.                 *)
(*                                                                         *)
(* Outside main.py.  Utilities.reduce_tensor_sum_dest is modelled by its   *)
(* contract, a sum reduction to the destination rank that a rank leaves    *)
(* once all ranks of the group have entered it; Artificial_DataLoader by   *)
(* a grid of windows whose number is the product of VADL.shape.  The two   *)
(* networks are functions of the window.  Collectives the                  *)
(* DistributedDataParallel wrapper may issue inside a forward call are     *)
(* not modelled.                                                           *)
(***************************************************************************)
EXTENDS Integers, Sequences, FiniteSets, TLC

\* ---------------------------------------------------------------- bounds
MaxWorldSize == 2
MaxDim == 2
MaxTotalWindows == 4
BatchSize == 2

\* ------------------------------------------------------------- arithmetic
Abs(x) == IF x < 0 THEN -x ELSE x

RECURSIVE GCD(_, _)
GCD(a, b) == IF b = 0 THEN a ELSE GCD(b, a % b)

NaN == <<0, 0>>
Zero == <<0, 1>>
IsNaN(v) == v[2] = 0

\* the rational n/d (d > 0) in lowest terms
Frac(n, d) == LET g == GCD(Abs(n), d) IN <<n \div g, d \div g>>

\* IEEE addition on the cell values: NaN absorbs, otherwise the exact sum
Add(x, y) ==
    IF IsNaN(x) \/ IsNaN(y) THEN NaN
    ELSE Frac(x[1] * y[2] + y[1] * x[2], x[2] * y[2])

\* faulty variant: ties away from zero instead of to even
round_half_up(q) == (q + 2) \div 4

\* torch.round on a value given in quarters: nearest integer, ties to even
round(q) ==
    LET f == q \div 4
        rem == q % 4
    IN  IF rem < 2 THEN f
        ELSE IF rem > 2 THEN f + 1
        ELSE IF f % 2 = 0 THEN f ELSE f + 1

\* faulty variant: the signed error, without abs
percent_error_signed(label, value) == Frac((label - value) * 100, label)

\* abs((label - value) / label) * 100, for label > 0
percent_error(label, value) == Frac(Abs(label - value) * 100, label)

\* ------------------------------------------------------- validation data
\* What the file holds for a window and what the two networks answer on
\* its signal: labels = (pulse count, mean duration, mean amplitude),
\* counter = raw output of model_1 in quarters, predictor = raw outputs
\* of model_2.
Profiles == <<
    [labels |-> <<2, 2, 1>>, counter |-> 8,  predictor |-> <<2, 1>>],
    [labels |-> <<0, 0, 0>>, counter |-> 4,  predictor |-> <<1, 1>>],
    [labels |-> <<1, 3, 2>>, counter |-> 6,  predictor |-> <<2, 3>>],
    [labels |-> <<0, 0, 0>>, counter |-> 0,  predictor |-> <<0, 0>>],
    [labels |-> <<3, 1, 1>>, counter |-> 1,  predictor |-> <<1, 2>>],
    [labels |-> <<0, 0, 0>>, counter |-> -4, predictor |-> <<2, 2>>],
    [labels |-> <<0, 0, 0>>, counter |-> 2,  predictor |-> <<3, 1>>] >>

\* a validation file <<a, b>> gives the window at file position k the
\* profile number (a + b * k) mod Len(Profiles): one profile throughout,
\* consecutive profiles, or every second one
Datasets == (0 .. Len(Profiles) - 1) \X (0 .. 2)

\* the grids: up to MaxDim concentrations, durations, diameters and windows
\* per signal, up to MaxTotalWindows windows in all
Shapes ==
    {s \in (1 .. MaxDim) \X (1 .. MaxDim) \X (1 .. MaxDim) \X (1 .. MaxDim) :
        s[1] * s[2] * s[3] * s[4] <= MaxTotalWindows}

VARIABLES
    world_size,         \* args.world_size
    run,                \* args.run
    statistics,         \* args.statistics
    shape,              \* VADL.shape
    dataset,            \* the contents of validation.h5
    pc,                 \* where each rank is in main()
    i,                  \* loop index of compute_error_stats, per rank
    count_errors,       \* per rank: cell -> value
    duration_errors,
    amplitude_errors,
    improper_measures,  \* per rank, local of compute_error_stats
    model_1_calls,      \* per rank: the windows model_1 was invoked on
    model_2_calls,      \* per rank: <<window, external>> of each model_2 call
    cell_writes,        \* per rank: the cells assigned, in order
    inflight,           \* collective number -> rank -> contribution
    reduced_count_error,    \* the tensors compute_error_stats hands to
    reduced_duration_error, \* rank 0, the only rank that reads them
    reduced_amplitude_error,
    stats_calls,        \* ranks that entered compute_error_stats
    plot_calls,         \* ranks that called plot_stats
    reports,            \* <<rank, n>>: rank printed "produces n improper measures"
    run_model_calls,    \* ranks that entered run_model
    batch,              \* run_model: the windows of the batch
    zero_pulse_indices, \* run_model
    external,           \* run_model: rounded counter outputs
    outputs,            \* run_model: predictor outputs
    bi,                 \* run_model: index of the classification loop
    measures,           \* run_model
    run_improper,       \* run_model: improper_measures
    count_error,        \* run_model accumulators: <<is_tensor, value>>
    duration_error,
    amplitude_error

stats_vars == <<i, count_errors, duration_errors, amplitude_errors,
                improper_measures, model_1_calls, model_2_calls, cell_writes,
                inflight, reduced_count_error, reduced_duration_error,
                reduced_amplitude_error, stats_calls, plot_calls, reports>>

run_vars == <<run_model_calls, batch, zero_pulse_indices, external, outputs,
              bi, measures, run_improper, count_error, duration_error,
              amplitude_error>>

arg_vars == <<world_size, run, statistics, shape, dataset>>

vars == <<arg_vars, pc, stats_vars, run_vars>>

\* ------------------------------------------------------------- the grid
Ranks == 0 .. world_size - 1

distributed == world_size > 1

total_number_of_windows == shape[1] * shape[2] * shape[3] * shape[4]

Cells ==
    (0 .. shape[1] - 1) \X (0 .. shape[2] - 1)
        \X (0 .. shape[3] - 1) \X (0 .. shape[4] - 1)

\* faulty variant: Fortran order
unravel_column_major(k, shp) ==
    <<k % shp[1],
      (k \div shp[1]) % shp[2],
      (k \div (shp[1] * shp[2])) % shp[3],
      k \div (shp[1] * shp[2] * shp[3])>>

\* np.unravel_index(k, shape), C order
unravel_index(k, shp) ==
    <<k \div (shp[2] * shp[3] * shp[4]),
      (k \div (shp[3] * shp[4])) % shp[2],
      (k \div shp[4]) % shp[3],
      k % shp[4]>>

\* position of a cell in the file, which stores the grid in C order
file_offset(cell) ==
    ((cell[1] * shape[2] + cell[2]) * shape[3] + cell[3]) * shape[4] + cell[4]

\* VADL.get_signal_window(Cnp, Duration, Dnp, window)
get_signal_window(cell) ==
    Profiles[((dataset[1] + dataset[2] * file_offset(cell)) % Len(Profiles)) + 1]

torch_zeros == [c \in Cells |-> Zero]


\* sum over the ranks of the tensors contributed to one collective
RECURSIVE tensor_sum(_, _)
tensor_sum(contrib, rs) ==
    IF rs = {} THEN torch_zeros
    ELSE LET r == CHOOSE x \in rs : TRUE
             rest == tensor_sum(contrib, rs \ {r})
         IN  [c \in Cells |-> Add(contrib[r].data[c], rest[c])]

\* ------------------------------------------------------------------ Init
Init ==
    /\ world_size \in 1 .. MaxWorldSize
    /\ run \in BOOLEAN
    /\ statistics \in BOOLEAN
    /\ shape \in Shapes
    /\ dataset \in Datasets
    /\ pc = [r \in Ranks |-> "main"]
    /\ i = [r \in Ranks |-> 0]
    /\ count_errors = [r \in Ranks |-> torch_zeros]
    /\ duration_errors = [r \in Ranks |-> torch_zeros]
    /\ amplitude_errors = [r \in Ranks |-> torch_zeros]
    /\ improper_measures = [r \in Ranks |-> 0]
    /\ model_1_calls = [r \in Ranks |-> <<>>]
    /\ model_2_calls = [r \in Ranks |-> <<>>]
    /\ cell_writes = [r \in Ranks |-> <<>>]
    /\ inflight = [k \in 1 .. 3 |-> <<>>]
    /\ reduced_count_error = torch_zeros
    /\ reduced_duration_error = torch_zeros
    /\ reduced_amplitude_error = torch_zeros
    /\ stats_calls = {}
    /\ plot_calls = {}
    /\ reports = {}
    /\ run_model_calls = {}
    /\ batch = <<>>
    /\ zero_pulse_indices = {}
    /\ external = <<>>
    /\ outputs = <<>>
    /\ bi = 0
    /\ measures = 0
    /\ run_improper = 0
    /\ count_error = <<FALSE, Zero>>
    /\ duration_error = <<FALSE, Zero>>
    /\ amplitude_error = <<FALSE, Zero>>

\* ------------------------------------------------------------------ main
\* faulty variant: --statistics tested before --run
main_branch_stats_first(r) ==
    IF statistics THEN "compute_error_stats"
    ELSE IF run THEN (IF r = 0 THEN "run_model" ELSE "return")
    ELSE "return"

\* the branch main() takes at lines 270-295
main_branch(r) ==
    IF run THEN (IF r = 0 THEN "run_model" ELSE "return")
    ELSE IF statistics THEN "compute_error_stats"
    ELSE "return"

main(r) ==
    /\ pc[r] = "main"
    /\ LET b == main_branch(r) IN
         \/ /\ b = "run_model"
            /\ pc' = [pc EXCEPT ![r] = "run_model"]
            /\ run_model_calls' = run_model_calls \cup {r}
            /\ UNCHANGED stats_vars
         \/ /\ b = "compute_error_stats"
            /\ pc' = [pc EXCEPT ![r] = "loop"]
            /\ stats_calls' = stats_calls \cup {r}
            /\ improper_measures' = [improper_measures EXCEPT ![r] = 0]
            /\ count_errors' = [count_errors EXCEPT ![r] = torch_zeros]
            /\ duration_errors' = [duration_errors EXCEPT ![r] = torch_zeros]
            /\ amplitude_errors' = [amplitude_errors EXCEPT ![r] = torch_zeros]
            /\ i' = [i EXCEPT ![r] = 0]
            /\ UNCHANGED <<model_1_calls, model_2_calls, cell_writes, inflight,
                           reduced_count_error, reduced_duration_error,
                           reduced_amplitude_error, plot_calls, reports,
                           run_model_calls>>
         \/ /\ b = "return"
            /\ pc' = [pc EXCEPT ![r] = "returned"]
            /\ UNCHANGED <<stats_vars, run_model_calls>>
    /\ UNCHANGED <<arg_vars, batch, zero_pulse_indices, external, outputs, bi,
                   measures, run_improper, count_error, duration_error,
                   amplitude_error>>


\* --------------------------------------------------- compute_error_stats
\* faulty variants: shards of consecutive indices; no sharding at all
in_shard_by_block(k, r) == (k \div world_size) % world_size = r
in_shard_every_rank(k, r) == TRUE

\* line 365: the windows a rank handles
in_shard(k, r) == k % world_size = r

\* faulty variant: any non-zero prediction, as run_model tests it
predicts_pulses_nonzero(ext) == ext # 0

\* line 413: the counter claims pulses in a window that has none
predicts_pulses(ext) == ext > 0

\* faulty variant: tensor[Cnp] = v
setitem_slice(tensor, cell, v) ==
    [c \in DOMAIN tensor |-> IF c[1] = cell[1] THEN v ELSE tensor[c]]

\* tensor[Cnp, Duration, Dnp, window] = v
setitem(tensor, cell, v) == [tensor EXCEPT ![cell] = v]

\* faulty variant: an improper window is marked in count_errors only
window_result_marks_count_only(data) ==
    LET ext == round(data.counter) IN
    IF data.labels[1] > 0
    THEN [count |-> percent_error(data.labels[1], ext),
          duration |-> percent_error(data.labels[2], data.predictor[1]),
          amplitude |-> percent_error(data.labels[3], data.predictor[2]),
          improper |-> 0, calls_model_2 |-> TRUE, external |-> ext]
    ELSE IF predicts_pulses(ext)
    THEN [count |-> NaN, duration |-> Zero, amplitude |-> Zero,
          improper |-> 1, calls_model_2 |-> FALSE, external |-> ext]
    ELSE [count |-> Zero, duration |-> Zero, amplitude |-> Zero,
          improper |-> 0, calls_model_2 |-> FALSE, external |-> ext]

\* faulty variant: the predictor is invoked in every branch
window_result_always_predicts(data) ==
    LET ext == round(data.counter) IN
    IF data.labels[1] > 0
    THEN [count |-> percent_error(data.labels[1], ext),
          duration |-> percent_error(data.labels[2], data.predictor[1]),
          amplitude |-> percent_error(data.labels[3], data.predictor[2]),
          improper |-> 0, calls_model_2 |-> TRUE, external |-> ext]
    ELSE IF predicts_pulses(ext)
    THEN [count |-> NaN, duration |-> NaN, amplitude |-> NaN,
          improper |-> 1, calls_model_2 |-> TRUE, external |-> ext]
    ELSE [count |-> Zero, duration |-> Zero, amplitude |-> Zero,
          improper |-> 0, calls_model_2 |-> TRUE, external |-> ext]

\* lines 371-421: what one window contributes.  calls_model_2 tells
\* whether the predictor is invoked, external is what it is given.
window_result(data) ==
    LET ext == round(data.counter) IN
    IF data.labels[1] > 0
    THEN [count |-> percent_error(data.labels[1], ext),
          duration |-> percent_error(data.labels[2], data.predictor[1]),
          amplitude |-> percent_error(data.labels[3], data.predictor[2]),
          improper |-> 0, calls_model_2 |-> TRUE, external |-> ext]
    ELSE IF predicts_pulses(ext)
    THEN [count |-> NaN, duration |-> NaN, amplitude |-> NaN,
          improper |-> 1, calls_model_2 |-> FALSE, external |-> ext]
    ELSE [count |-> Zero, duration |-> Zero, amplitude |-> Zero,
          improper |-> 0, calls_model_2 |-> FALSE, external |-> ext]

\* lines 364-421: one iteration of the loop over the flat window index
loop_iteration(r) ==
    /\ pc[r] = "loop"
    /\ i[r] < total_number_of_windows
    /\ i' = [i EXCEPT ![r] = @ + 1]
    /\ IF in_shard(i[r], r)
       THEN LET cell == unravel_index(i[r], shape)
                res == window_result(get_signal_window(cell))
            IN  /\ count_errors' =
                     [count_errors EXCEPT ![r] = setitem(@, cell, res.count)]
                /\ duration_errors' =
                     [duration_errors EXCEPT ![r] = setitem(@, cell, res.duration)]
                /\ amplitude_errors' =
                     [amplitude_errors EXCEPT ![r] = setitem(@, cell, res.amplitude)]
                /\ improper_measures' =
                     [improper_measures EXCEPT ![r] = @ + res.improper]
                /\ model_1_calls' =
                     [model_1_calls EXCEPT ![r] = Append(@, i[r])]
                /\ model_2_calls' =
                     IF res.calls_model_2
                     THEN [model_2_calls EXCEPT
                             ![r] = Append(@, <<i[r], res.external>>)]
                     ELSE model_2_calls
                /\ cell_writes' = [cell_writes EXCEPT ![r] = Append(@, cell)]
       ELSE UNCHANGED <<count_errors, duration_errors, amplitude_errors,
                        improper_measures, model_1_calls, model_2_calls,
                        cell_writes>>
    /\ UNCHANGED <<arg_vars, pc, inflight, reduced_count_error,
                   reduced_duration_error, reduced_amplitude_error,
                   stats_calls, plot_calls, reports, run_vars>>

\* faulty variant: a rank that handled no window skips the reductions
after_loop_skips_empty_shard(r) ==
    IF distributed /\ model_1_calls[r] # <<>> THEN "reduce_count"
    ELSE "local_result"

\* line 427: where a rank goes when the loop is exhausted
after_loop(r) == IF distributed THEN "reduce_count" ELSE "local_result"

loop_end(r) ==
    /\ pc[r] = "loop"
    /\ i[r] = total_number_of_windows
    /\ pc' = [pc EXCEPT ![r] = after_loop(r)]
    /\ UNCHANGED <<arg_vars, stats_vars, run_vars>>

\* lines 432-434
local_result(r) ==
    /\ pc[r] = "local_result"
    /\ reduced_count_error' = IF r = 0 THEN count_errors[r] ELSE reduced_count_error
    /\ reduced_duration_error' =
         IF r = 0 THEN duration_errors[r] ELSE reduced_duration_error
    /\ reduced_amplitude_error' =
         IF r = 0 THEN amplitude_errors[r] ELSE reduced_amplitude_error
    /\ pc' = [pc EXCEPT ![r] = "return_stats"]
    /\ UNCHANGED <<arg_vars, i, count_errors, duration_errors, amplitude_errors,
                   improper_measures, model_1_calls, model_2_calls, cell_writes,
                   inflight, stats_calls, plot_calls, reports, run_vars>>


\* ------------------------------------------------- the three reductions
\* lines 428-430, in program order
ReduceSites == <<"count", "duration", "amplitude">>

\* the tensor a rank passes at a call site
local_tensor(r, site) ==
    IF site = "count" THEN count_errors[r]
    ELSE IF site = "duration" THEN duration_errors[r]
    ELSE amplitude_errors[r]

\* a process group matches collectives by the order of the calls: the
\* k-th call of a rank joins the k-th collective of the group
entered(r) == Cardinality({k \in 1 .. 3 : r \in DOMAIN inflight[k]})

\* Utilities.reduce_tensor_sum_dest(tensor, 0): the call is entered ...
reduce_enter(r, s) ==
    /\ pc[r] = "reduce_" \o ReduceSites[s]
    /\ LET k == entered(r) + 1
           mine == [name |-> ReduceSites[s], data |-> local_tensor(r, ReduceSites[s])]
       IN  inflight' =
             [inflight EXCEPT
                ![k] = [x \in DOMAIN @ \cup {r} |-> IF x = r THEN mine ELSE @[x]]]
    /\ pc' = [pc EXCEPT ![r] = "in_reduce_" \o ReduceSites[s]]
    /\ UNCHANGED <<arg_vars, i, count_errors, duration_errors, amplitude_errors,
                   improper_measures, model_1_calls, model_2_calls, cell_writes,
                   reduced_count_error, reduced_duration_error,
                   reduced_amplitude_error, stats_calls, plot_calls, reports,
                   run_vars>>

\* ... and returns once every rank of the group has entered it.  The
\* destination rank 0 gets the sum; what the call returns on another rank
\* is not specified and is never read.
reduce_return(r, s) ==
    /\ pc[r] = "in_reduce_" \o ReduceSites[s]
    /\ LET k == entered(r)
           sum == tensor_sum(inflight[k], DOMAIN inflight[k])
       IN  /\ DOMAIN inflight[k] = Ranks
           /\ reduced_count_error' =
                IF r = 0 /\ s = 1 THEN sum ELSE reduced_count_error
           /\ reduced_duration_error' =
                IF r = 0 /\ s = 2 THEN sum ELSE reduced_duration_error
           /\ reduced_amplitude_error' =
                IF r = 0 /\ s = 3 THEN sum ELSE reduced_amplitude_error
    /\ pc' = [pc EXCEPT ![r] = IF s < 3 THEN "reduce_" \o ReduceSites[s + 1]
                                ELSE "return_stats"]
    /\ UNCHANGED <<arg_vars, i, count_errors, duration_errors, amplitude_errors,
                   improper_measures, model_1_calls, model_2_calls, cell_writes,
                   inflight, stats_calls, plot_calls, reports, run_vars>>

\* lines 289-295: back in main() with the list compute_error_stats returned
reports_on(r) == r = 0

return_stats(r) ==
    /\ pc[r] = "return_stats"
    /\ pc' = [pc EXCEPT ![r] = IF reports_on(r) THEN "plot_stats" ELSE "returned"]
    /\ UNCHANGED <<arg_vars, stats_vars, run_vars>>

\* line 291
plot_stats(r) ==
    /\ pc[r] = "plot_stats"
    /\ plot_calls' = plot_calls \cup {r}
    /\ pc' = [pc EXCEPT ![r] = "print_improper"]
    /\ UNCHANGED <<arg_vars, i, count_errors, duration_errors, amplitude_errors,
                   improper_measures, model_1_calls, model_2_calls, cell_writes,
                   inflight, reduced_count_error, reduced_duration_error,
                   reduced_amplitude_error, stats_calls, reports, run_vars>>

\* lines 292-295: "This backbone produces {} improper measures."
print_improper(r) ==
    /\ pc[r] = "print_improper"
    /\ reports' = reports \cup {<<r, improper_measures[r]>>}
    /\ pc' = [pc EXCEPT ![r] = "returned"]
    /\ UNCHANGED <<arg_vars, i, count_errors, duration_errors, amplitude_errors,
                   improper_measures, model_1_calls, model_2_calls, cell_writes,
                   inflight, reduced_count_error, reduced_duration_error,
                   reduced_amplitude_error, stats_calls, plot_calls, run_vars>>


\* -------------------------------------------------------------- run_model
BatchIndices == 0 .. BatchSize - 1

\* VADL.get_batch(descart_empty_windows=False): batch_size windows of the
\* grid, taken here as a run of consecutive windows from any start
Batches ==
    {[e \in BatchIndices |->
        unravel_index((start + e) % total_number_of_windows, shape)] :
            start \in 0 .. total_number_of_windows - 1}

\* lines 643-659: one batch through the counter and the predictor
run_forward(r) ==
    /\ pc[r] = "run_model"
    /\ \E b \in Batches :
         LET num_of_pulses == [e \in BatchIndices |-> get_signal_window(b[e]).counter]
             zeros == {e \in BatchIndices : round(num_of_pulses[e]) = 0}
         IN  /\ batch' = b
             /\ zero_pulse_indices' = zeros
             /\ external' = [e \in BatchIndices |-> round(num_of_pulses[e])]
             /\ outputs' = [e \in BatchIndices |->
                              IF e \in zeros THEN <<0, 0>>
                              ELSE get_signal_window(b[e]).predictor]
    /\ bi' = 0
    /\ measures' = 0
    /\ run_improper' = 0
    /\ count_error' = <<FALSE, Zero>>
    /\ duration_error' = <<FALSE, Zero>>
    /\ amplitude_error' = <<FALSE, Zero>>
    /\ pc' = [pc EXCEPT ![r] = "classify"]
    /\ UNCHANGED <<arg_vars, stats_vars, run_model_calls>>

\* faulty variant: measures is incremented for every element, the
\* improper ones included
classify_every_element_measured(r) ==
    /\ pc[r] = "classify"
    /\ bi < BatchSize
    /\ LET labels == get_signal_window(batch[bi]).labels IN
         IF labels[1] = 0
         THEN /\ measures' = measures + 1
              /\ IF bi \in zero_pulse_indices
                 THEN UNCHANGED run_improper
                 ELSE run_improper' = run_improper + 1
              /\ UNCHANGED <<count_error, duration_error, amplitude_error>>
         ELSE /\ measures' = measures + 1
              /\ count_error' =
                   <<TRUE, Add(count_error[2],
                               percent_error(labels[1], external[bi]))>>
              /\ duration_error' =
                   <<TRUE, Add(duration_error[2],
                               percent_error(labels[2], outputs[bi][1]))>>
              /\ amplitude_error' =
                   <<TRUE, Add(amplitude_error[2],
                               percent_error(labels[3], outputs[bi][2]))>>
              /\ UNCHANGED run_improper
    /\ bi' = bi + 1
    /\ UNCHANGED <<arg_vars, pc, stats_vars, run_model_calls, batch,
                   zero_pulse_indices, external, outputs>>

\* lines 690-700: one element of the batch
classify(r) ==
    /\ pc[r] = "classify"
    /\ bi < BatchSize
    /\ LET labels == get_signal_window(batch[bi]).labels IN
         IF labels[1] = 0
         THEN /\ IF bi \in zero_pulse_indices
                 THEN measures' = measures + 1 /\ UNCHANGED run_improper
                 ELSE run_improper' = run_improper + 1 /\ UNCHANGED measures
              /\ UNCHANGED <<count_error, duration_error, amplitude_error>>
         ELSE /\ measures' = measures + 1
              /\ count_error' =
                   <<TRUE, Add(count_error[2],
                               percent_error(labels[1], external[bi]))>>
              /\ duration_error' =
                   <<TRUE, Add(duration_error[2],
                               percent_error(labels[2], outputs[bi][1]))>>
              /\ amplitude_error' =
                   <<TRUE, Add(amplitude_error[2],
                               percent_error(labels[3], outputs[bi][2]))>>
              /\ UNCHANGED run_improper
    /\ bi' = bi + 1
    /\ UNCHANGED <<arg_vars, pc, stats_vars, run_model_calls, batch,
                   zero_pulse_indices, external, outputs>>

\* lines 703-707 and 280: the report divides accumulator.item() by measures;
\* an accumulator no element added to is still the float 0.0
run_report(r) ==
    /\ pc[r] = "classify"
    /\ bi = BatchSize
    /\ pc' = [pc EXCEPT ![r] =
                IF ~duration_error[1] \/ ~amplitude_error[1] \/ ~count_error[1]
                   \/ measures = 0
                THEN "raised" ELSE "returned"]
    /\ UNCHANGED <<arg_vars, stats_vars, run_vars>>

\* ------------------------------------------------------------------ Next
Next ==
    \E r \in Ranks :
        \/ main(r)
        \/ loop_iteration(r)
        \/ loop_end(r)
        \/ local_result(r)
        \/ \E s \in 1 .. 3 : reduce_enter(r, s)
        \/ \E s \in 1 .. 3 : reduce_return(r, s)
        \/ return_stats(r)
        \/ plot_stats(r)
        \/ print_improper(r)
        \/ run_forward(r)
        \/ classify(r)
        \/ run_report(r)

Spec == Init /\ [][Next]_vars

\* every rank is a process of its own and keeps running while it can, so
\* a step is taken as long as some rank can take one
FairDatasets == {<<1, 0>>, <<0, 1>>}

InitFair == Init /\ dataset \in FairDatasets

FairSpec == InitFair /\ [][Next]_vars /\ WF_vars(Next)

\* ======================================================== properties
Windows == 0 .. total_number_of_windows - 1

\* row-major position of a cell of the grid
RowMajor(c) ==
    c[1] * (shape[2] * shape[3] * shape[4]) + c[2] * (shape[3] * shape[4])
        + c[3] * shape[4] + c[4]

CellOf(k) == CHOOSE c \in Cells : RowMajor(c) = k

DataOf(k) == get_signal_window(CellOf(k))

\* zero pulses in the ground truth, one or more in the rounded prediction
ImproperWindow(k) == DataOf(k).labels[1] = 0 /\ round(DataOf(k).counter) >= 1

ShardOf(r) == {k \in Windows : k % world_size = r}

LoopDone(r) == pc[r] # "main" /\ pc[r] # "loop"

StatisticsMode == statistics /\ ~run

AllReturned == \A r \in Ranks : pc[r] = "returned"

\* C1: a rank's improper_measures is the number of windows of its shard,
\* among those the loop has passed, with zero ground-truth pulses and a
\* rounded prediction of one or more; at the end of the loop that is the
\* number of such windows of the whole shard.
C1_ImproperCountsShard ==
    \A r \in Ranks :
        /\ improper_measures[r] =
             Cardinality({k \in ShardOf(r) : k < i[r] /\ ImproperWindow(k)})
        /\ LoopDone(r) /\ StatisticsMode =>
             improper_measures[r] =
                Cardinality({k \in ShardOf(r) : ImproperWindow(k)})

\* a rank finished a shard holding a counted window, a zero-pulse window
\* with a negative prediction and a zero-pulse window predicted as zero
C1_Witness ==
    \E r \in Ranks :
        /\ StatisticsMode /\ LoopDone(r)
        /\ improper_measures[r] >= 1
        /\ \E k \in ShardOf(r) :
             DataOf(k).labels[1] = 0 /\ round(DataOf(k).counter) < 0
        /\ \E k \in ShardOf(r) :
             DataOf(k).labels[1] = 0 /\ round(DataOf(k).counter) = 0

\* C2: the number rank 0 prints is the number of improper windows of the
\* whole grid, for every world_size.
C2_PrintsGridTotal ==
    \A rep \in reports :
        rep[2] = Cardinality({k \in Windows : ImproperWindow(k)})

\* C3: every window is evaluated at most once, only by rank k mod W, and
\* exactly once as soon as that rank's loop has passed it.
Evaluations(k) ==
    {e \in Ranks \X (1 .. total_number_of_windows) :
        e[2] \in DOMAIN model_1_calls[e[1]] /\ model_1_calls[e[1]][e[2]] = k}

C3_ShardingPartition ==
    \A k \in Windows :
        /\ Cardinality(Evaluations(k)) <= 1
        /\ \A e \in Evaluations(k) : e[1] = k % world_size
        /\ i[k % world_size] > k => Cardinality(Evaluations(k)) = 1

\* a distributed run over at least three windows in which every rank has
\* left its loop
C3_Witness ==
    /\ StatisticsMode /\ distributed
    /\ total_number_of_windows >= 3
    /\ \A r \in Ranks : LoopDone(r) /\ model_1_calls[r] # <<>>

\* the tensors of a single-process run: the loop of compute_error_stats
\* over all the windows, in order, on one rank
RECURSIVE SingleProcess(_, _)
SingleProcess(field, n) ==
    IF n = 0 THEN torch_zeros
    ELSE LET cell == unravel_index(n - 1, shape)
             res == window_result(get_signal_window(cell))
         IN  setitem(SingleProcess(field, n - 1), cell, res[field])

ReductionDone(r) ==
    pc[r] \in {"return_stats", "plot_stats", "print_improper", "returned"}

\* C4: after the reduction rank 0 holds the tensors of a single-process
\* run, and a NaN cell of its owner is NaN in the result, the other ranks
\* holding 0 there.
C4_ReductionEqualsSingleProcess ==
    StatisticsMode /\ distributed /\ ReductionDone(0) =>
        /\ reduced_count_error = SingleProcess("count", total_number_of_windows)
        /\ reduced_duration_error =
             SingleProcess("duration", total_number_of_windows)
        /\ reduced_amplitude_error =
             SingleProcess("amplitude", total_number_of_windows)
        /\ \A k \in Windows :
             LET c == CellOf(k)
                 owner == k % world_size
             IN  IsNaN(count_errors[owner][c]) =>
                   /\ IsNaN(reduced_count_error[c])
                   /\ IsNaN(reduced_duration_error[c])
                   /\ IsNaN(reduced_amplitude_error[c])
                   /\ \A r \in Ranks \ {owner} :
                        /\ count_errors[r][c] = Zero
                        /\ duration_errors[r][c] = Zero
                        /\ amplitude_errors[r][c] = Zero

\* rank 0 is back from a reduction whose result has a NaN cell owned by
\* another rank and a cell with a non-zero error
C4_Witness ==
    /\ StatisticsMode /\ distributed /\ ReductionDone(0)
    /\ \E k \in Windows :
         k % world_size # 0 /\ IsNaN(reduced_count_error[CellOf(k)])
    /\ \E c \in Cells :
         ~IsNaN(reduced_count_error[c]) /\ reduced_count_error[c] # Zero

\* C5: the flat index maps to in-range coordinates whose row-major
\* position is the index, and over a complete run every cell is written
\* exactly once, by the window at its row-major position.
Writes(c) ==
    {e \in Ranks \X (1 .. total_number_of_windows) :
        e[2] \in DOMAIN cell_writes[e[1]] /\ cell_writes[e[1]][e[2]] = c}

C5_RowMajorBijection ==
    /\ Cardinality(Cells) = total_number_of_windows
    /\ \A k \in Windows :
         /\ unravel_index(k, shape) \in Cells
         /\ RowMajor(unravel_index(k, shape)) = k
    /\ \A c \in Cells :
         /\ Cardinality(Writes(c)) <= 1
         /\ \A e \in Writes(c) : model_1_calls[e[1]][e[2]] = RowMajor(c)
         /\ (StatisticsMode /\ \A r \in Ranks : LoopDone(r)) =>
              Cardinality(Writes(c)) = 1

\* a complete distributed run over a grid with more than one coordinate
\* in two of its dimensions
C5_Witness ==
    /\ StatisticsMode /\ distributed /\ AllReturned
    /\ shape[1] > 1 /\ shape[3] > 1
    /\ \A c \in Cells : Cardinality(Writes(c)) = 1


\* C6: a rank enters a reduction only after its loop, all ranks pass the
\* three tensors to the collectives in the same order (count, duration,
\* amplitude), and in distributed statistics mode every rank eventually
\* returns.
CollectivesInOrder ==
    \A k \in 1 .. 3 :
        \A r \in DOMAIN inflight[k] :
            /\ inflight[k][r].name = ReduceSites[k]
            /\ i[r] = total_number_of_windows
            /\ \A j \in 1 .. k : r \in DOMAIN inflight[j]

Left(r) == pc[r] # "main"

C8_RunModelSameCondition ==
    batch # <<>> =>
        run_improper =
            Cardinality({e \in BatchIndices :
                e < bi /\ window_result(get_signal_window(batch[e])).improper = 1})

\* C9: model_2 is invoked only on windows with a positive ground-truth
\* count, once, with the rounded model_1 output of that window; on a
\* window with zero pulses model_1 alone is invoked.
PredictorCalls(r, k) ==
    {j \in DOMAIN model_2_calls[r] : model_2_calls[r][j][1] = k}

C9_PredictorOnlyOnPulses ==
    \A r \in Ranks :
        /\ \A j \in DOMAIN model_2_calls[r] :
             LET k == model_2_calls[r][j][1] IN
               /\ DataOf(k).labels[1] > 0
               /\ model_2_calls[r][j][2] = round(DataOf(k).counter)
               /\ \E m \in DOMAIN model_1_calls[r] : model_1_calls[r][m] = k
        /\ \A m \in DOMAIN model_1_calls[r] :
             LET k == model_1_calls[r][m] IN
               Cardinality(PredictorCalls(r, k)) =
                  IF DataOf(k).labels[1] > 0 THEN 1 ELSE 0

\* a rank has handled a window with pulses, whose counter output is a
\* tie that rounds to even, and a window without pulses
C9_Witness ==
    \E r \in Ranks :
        /\ \E j \in DOMAIN model_2_calls[r] :
             DataOf(model_2_calls[r][j][1]).counter % 4 = 2
        /\ \E m \in DOMAIN model_1_calls[r] :
             DataOf(model_1_calls[r][m]).labels[1] = 0

\* C10: an iteration of the loop changes, on its rank, at most the cell of
\* its window in the three tensors, to a value fixed by that window's
\* label and model outputs alone, and improper_measures by one when the
\* window is improper; everything else in the tensors stays.
OtherCellsKept(r, cell) ==
    \A c \in Cells \ {cell} :
        /\ count_errors'[r][c] = count_errors[r][c]
        /\ duration_errors'[r][c] = duration_errors[r][c]
        /\ amplitude_errors'[r][c] = amplitude_errors[r][c]

WindowValues(k) ==
    LET d == DataOf(k)
        p == round(d.counter)
    IN  IF d.labels[1] > 0
        THEN <<percent_error(d.labels[1], p),
               percent_error(d.labels[2], d.predictor[1]),
               percent_error(d.labels[3], d.predictor[2])>>
        ELSE IF p > 0 THEN <<NaN, NaN, NaN>> ELSE <<Zero, Zero, Zero>>

IterationFrame(r) ==
    LET k == i[r]
        cell == CellOf(k)
        mine == k % world_size = r
    IN  /\ OtherCellsKept(r, cell)
        /\ \A r2 \in Ranks \ {r} :
             /\ count_errors'[r2] = count_errors[r2]
             /\ duration_errors'[r2] = duration_errors[r2]
             /\ amplitude_errors'[r2] = amplitude_errors[r2]
             /\ improper_measures'[r2] = improper_measures[r2]
        /\ improper_measures'[r] =
             improper_measures[r] + (IF mine /\ ImproperWindow(k) THEN 1 ELSE 0)
        /\ IF mine
           THEN <<count_errors'[r][cell], duration_errors'[r][cell],
                  amplitude_errors'[r][cell]>> = WindowValues(k)
           ELSE /\ count_errors'[r][cell] = count_errors[r][cell]
                /\ duration_errors'[r][cell] = duration_errors[r][cell]
                /\ amplitude_errors'[r][cell] = amplitude_errors[r][cell]

C10_IterationFrame ==
    [][\A r \in Ranks : i'[r] = i[r] + 1 => IterationFrame(r)]_vars

\* a rank has written a non-zero error and a NaN into cells that share
\* their concentration, and counted the improper window
C10_Witness ==
    \E r \in Ranks :
        /\ improper_measures[r] >= 1
        /\ \E c1, c2 \in Cells :
             /\ c1 # c2 /\ c1[1] = c2[1]
             /\ IsNaN(count_errors[r][c1])
             /\ ~IsNaN(count_errors[r][c2]) /\ count_errors[r][c2] # Zero


\* C11: for a window with c > 0 pulses and rounded prediction p the count
\* error a rank records is |c - p| / c * 100, which is 0 exactly when
\* p = c and 100 when p = 0.
C11_CountError ==
    \A r \in Ranks :
        \A j \in DOMAIN cell_writes[r] :
            LET k == model_1_calls[r][j]
                c == DataOf(k).labels[1]
                p == round(DataOf(k).counter)
                v == count_errors[r][cell_writes[r][j]]
            IN  c > 0 =>
                  /\ v[2] > 0
                  /\ v[1] * c = Abs(c - p) * 100 * v[2]
                  /\ v = Zero <=> p = c
                  /\ p = 0 => v = <<100, 1>>

\* one rank has recorded a window counted exactly, a window with pulses
\* predicted as none, and a window predicted with one pulse too many
C11_Witness ==
    \E r \in Ranks :
        /\ \E j \in DOMAIN model_1_calls[r] :
             LET d == DataOf(model_1_calls[r][j]) IN
               d.labels[1] > 0 /\ round(d.counter) = d.labels[1]
        /\ \E j \in DOMAIN model_1_calls[r] :
             LET d == DataOf(model_1_calls[r][j]) IN
               d.labels[1] > 0 /\ round(d.counter) = 0
        /\ \E j \in DOMAIN model_1_calls[r] :
             LET d == DataOf(model_1_calls[r][j]) IN
               d.labels[1] > 0 /\ round(d.counter) > d.labels[1]


\* C12: a window without pulses gets the same mark in the three tensors,
\* NaN when it is improper and 0 otherwise; a cell of a rank is NaN in one
\* tensor iff it is NaN in the other two iff the rank has handled its
\* window and the window is improper, and a rank holds as many NaN cells
\* as its improper_measures.
Handled(r, c) ==
    \E j \in DOMAIN cell_writes[r] : cell_writes[r][j] = c

C12_SameMark ==
    \A r \in Ranks :
        /\ \A c \in Cells :
             LET k == RowMajor(c)
                 marked == Handled(r, c) /\ ImproperWindow(k)
             IN  /\ IsNaN(count_errors[r][c]) <=> marked
                 /\ IsNaN(duration_errors[r][c]) <=> marked
                 /\ IsNaN(amplitude_errors[r][c]) <=> marked
                 /\ Handled(r, c) /\ DataOf(k).labels[1] = 0 =>
                      /\ count_errors[r][c] = (IF ImproperWindow(k) THEN NaN ELSE Zero)
                      /\ duration_errors[r][c] = count_errors[r][c]
                      /\ amplitude_errors[r][c] = count_errors[r][c]
        /\ Cardinality({c \in Cells : IsNaN(count_errors[r][c])})
             = improper_measures[r]

\* a rank is through a shard with an improper window, a window without
\* pulses that is not improper and a window with pulses and errors
C12_Witness ==
    \E r \in Ranks :
        /\ LoopDone(r)
        /\ \E c \in Cells : IsNaN(duration_errors[r][c])
        /\ \E c \in Cells :
             /\ Handled(r, c) /\ DataOf(RowMajor(c)).labels[1] = 0
             /\ amplitude_errors[r][c] = Zero
        /\ \E c \in Cells :
             ~IsNaN(duration_errors[r][c]) /\ duration_errors[r][c] # Zero


\* C13: the classification loop of run_model counts every element once,
\* as a measure or as an improper measure, so that after the loop
\* measures + improper_measures is the batch size; an element with pulses
\* in the ground truth is a measure.
BatchLabel(e) == get_signal_window(batch[e]).labels[1]

Classified == {e \in BatchIndices : e < bi}

C13_ClassifiedOnce ==
    batch # <<>> =>
        /\ measures + run_improper = bi
        /\ pc[0] \in {"returned", "raised"} => measures + run_improper = BatchSize
        /\ measures >= Cardinality({e \in Classified : BatchLabel(e) # 0})
        /\ run_improper <= Cardinality({e \in Classified : BatchLabel(e) = 0})

\* the loop is through a batch holding an element with pulses and an
\* element counted as improper
C13_Witness ==
    /\ batch # <<>> /\ bi = BatchSize
    /\ run_improper >= 1
    /\ \E e \in BatchIndices : BatchLabel(e) # 0

\* C14: when run_model divides the accumulated errors by measures,
\* measures is at least 1 and the three accumulators are tensors, whatever
\* the batch holds, and the report is printed without an exception.
C14_ReportNeverRaises ==
    \A r \in Ranks :
        /\ pc[r] # "raised"
        /\ pc[r] = "classify" /\ bi = BatchSize =>
             /\ measures >= 1
             /\ count_error[1] /\ duration_error[1] /\ amplitude_error[1]

====
